---- MODULE Spec2Model ----
(***************************************************************************)
(* Model of worker/autodoc_engine.py: the DeterministicExplorer (element   *)
(* signature, safety filter, ranked selection with a visited set), the     *)
(* ScreenshotCapture fallback chain and the AutoDocEngine.run_web_         *)
(* exploration controller loop.                                            *)
(*                                                                         *)
(* Python strings are sequences of one-character strings, so that strip,   *)
(* lower, slicing, substring search and f-string formatting are computed.  *)
(* None and "" are both falsy in the `or` chains of the source and are     *)
(* both written <<>>.                                                      *)
(***************************************************************************)
EXTENDS Integers, Sequences, FiniteSets, TLC

\* ------------------------------------------------------------------ bounds
MaxDom == 2     \* largest number of interactive elements on one page
MaxArg == 2     \* largest max_screenshots argument a caller passes
MaxScanDom == 3 \* largest page of the scan-level specification

\* ------------------------------------------------------- program constants
DefaultMaxScreenshots == 5
SigTextLen == 30
LogTextLen == 50
RowBucket == 100
NumSelectors == 6

\* ----------------------------------------------------------------- strings
UpperChars == <<"A","B","C","D","E","F","G","H","I","J","K","L","M",
                "N","O","P","Q","R","S","T","U","V","W","X","Y","Z">>
LowerChars == <<"a","b","c","d","e","f","g","h","i","j","k","l","m",
                "n","o","p","q","r","s","t","u","v","w","x","y","z">>
DigitChars == <<"0","1","2","3","4","5","6","7","8","9">>

LowerChar(c) ==
    IF \E k \in 1..26 : UpperChars[k] = c
    THEN LowerChars[CHOOSE k \in 1..26 : UpperChars[k] = c]
    ELSE c

\* str.lower()
lower(s) == [k \in 1..Len(s) |-> LowerChar(s[k])]

IsSpace(c) == c \in {" ", "\t", "\n"}

\* str.strip(): drop leading and trailing whitespace
strip(s) ==
    LET keep == {k \in 1..Len(s) : ~IsSpace(s[k])}
    IN  IF keep = {} THEN <<>>
        ELSE LET lo == CHOOSE k \in keep : \A m \in keep : k <= m
                 hi == CHOOSE k \in keep : \A m \in keep : k >= m
             IN  SubSeq(s, lo, hi)

\* the string as it is
Whole(s, len) == s

\* s[:n]
Prefix(s, len) == SubSeq(s, 1, IF Len(s) < len THEN Len(s) ELSE len)

\* `sub in s` for strings
Contains(sub, s) ==
    \E k \in 0..(Len(s) - Len(sub)) : SubSeq(s, k + 1, k + Len(sub)) = sub

RECURSIVE NatStr(_)
NatStr(v) ==
    IF v < 10 THEN <<DigitChars[v + 1]>>
    ELSE NatStr(v \div 10) \o <<DigitChars[(v % 10) + 1]>>

\* str(int) as used by the f-string
IntStr(v) == IF v < 0 THEN <<"-">> \o NatStr(0 - v) ELSE NatStr(v)

\* a or b : the first truthy operand, else the last
Or(a, b) == IF a # <<>> THEN a ELSE b

\* ------------------------------------------------------- the DOM universe
\* raises: the reads of the element handle that raise, a subset of
\*   {"displayed", "enabled", "text", "attribute", "location", "size", "tag"}
\* sels: the XPath selectors of get_next_interactive_element it matches
El(tag, txt, aria, name, id, role, x, y, w, h, disp, enab, sels, raises) ==
    [tag |-> tag, text |-> txt, aria |-> aria, name |-> name, id |-> id,
     role |-> role, x |-> x, y |-> y, w |-> w, h |-> h,
     displayed |-> disp, enabled |-> enab, sels |-> sels, raises |-> raises]

TagButton == <<"b","u","t","t","o","n">>
TagA == <<"a">>
TagDiv == <<"d","i","v">>
TagInput == <<"i","n","p","u","t">>

Elem == <<
    El(TagButton, <<"H","o","m","e">>, <<>>, <<>>, <<>>, "",
       10, 50, 100, 40, TRUE, TRUE, {2}, {}),
    El(TagButton, <<" ","D","o","c","s"," ">>, <<>>, <<>>, <<>>, "",
       50, 50, 100, 40, TRUE, TRUE, {2}, {}),
    El(TagButton, <<"L","o","g","o","u","t">>, <<>>, <<>>, <<>>, "",
       250, 50, 100, 40, TRUE, TRUE, {2}, {}),
    El(TagButton, <<>>, <<>>, <<>>, <<"d","e","l","e","t","e","-","b","t","n">>, "",
       -30, 50, 40, 40, TRUE, TRUE, {2}, {}),
    El(TagDiv, <<"O","K">>, <<>>, <<>>, <<>>, "dialog",
       10, 150, 300, 200, TRUE, TRUE, {6}, {}),
    El(TagButton, <<"M","e","n","u">>, <<>>, <<>>, <<>>, "",
       10, 50, 100, 40, FALSE, TRUE, {2}, {}),
    El(TagA, <<"T","o","p">>, <<>>, <<>>, <<>>, "",
       10, 10, 50, 20, TRUE, TRUE, {1}, {"text", "attribute"}),
    El(TagButton, <<"H","o","m","e">>, <<>>, <<>>, <<>>, "",
       10, 50, 200, 40, TRUE, TRUE, {2}, {}),
    El(TagA, <<"N","e","x","t">>, <<>>, <<>>, <<>>, "",
       10, 300, 300, 100, TRUE, TRUE, {1, 6}, {}),
    El(TagInput, <<>>, <<>>, <<"s","a","v","e">>, <<>>, "",
       10, 400, 80, 30, TRUE, FALSE, {3}, {}),
    El(TagButton, <<"H","e","l","p">>, <<>>, <<>>, <<>>, "",
       400, 50, 100, 40, TRUE, TRUE, {2}, {"location"}),
    El(TagA, <<>>, <<"C","l","o","s","e"," ","m","e","n","u">>, <<>>, <<>>, "",
       500, 50, 30, 30, TRUE, TRUE, {1}, {}),
    El(TagA, <<"M","o","r","e">>, <<>>, <<>>, <<>>, "",
       10, 10, 50, 20, TRUE, TRUE, {1}, {"attribute"}),
    El(TagA, <<>>, <<"I","n","f","o">>, <<>>, <<>>, "",
       60, 10, 50, 20, TRUE, TRUE, {1}, {"attribute"})
>>

ElemIds == 1..Len(Elem)

\* None for an element handle
NoElement == 0
\* None for a signature
NoSig == <<>>

\* the elements the pages of the explored application are made of
PageElems == {1, 2, 3, 8, 9}

\* the pages: the sets of interactive elements a page load or a click can show
Doms == {d \in SUBSET PageElems : Cardinality(d) <= MaxDom}

\* ------------------------------------------------- DeterministicExplorer
avoid_keywords == {
    <<"l","o","g","o","u","t">>, <<"s","i","g","n"," ","o","u","t">>,
    <<"d","e","l","e","t","e">>, <<"r","e","m","o","v","e">>,
    <<"e","x","i","t">>, <<"c","a","n","c","e","l">>,
    <<"c","l","o","s","e">>, <<"b","a","c","k">>}

DialogRoles == {"alertdialog", "dialog"}

StrElement == <<"e","l","e","m","e","n","t">>
StrUnlabeled == <<"u","n","l","a","b","e","l","e","d">>

\* outcome of evaluating an expression inside a try block
Raised == [raised |-> TRUE, val |-> <<>>]
Value(v) == [raised |-> FALSE, val |-> v]

\* element.text.strip() or aria-label or name or id or "element";
\* `or` evaluates its right operand only when the left one is falsy
SignatureText(e) ==
    IF "text" \in e.raises THEN Raised
    ELSE IF strip(e.text) # <<>> THEN Value(strip(e.text))
    ELSE IF "attribute" \in e.raises THEN Raised
    ELSE Value(Or(e.aria, Or(e.name, Or(e.id, StrElement))))

get_element_signature(e) ==
    LET t == SignatureText(e)
    IN  IF t.raised \/ "location" \in e.raises \/ "tag" \in e.raises
        THEN NoSig
        ELSE e.tag \o <<"_">> \o Prefix(t.val, SigTextLen) \o <<"_">>
             \o IntStr(e.x) \o <<"_">> \o IntStr(e.y)

\* (element.text.strip() or aria-label or name or "").lower()
SafetyText(e) ==
    IF "text" \in e.raises THEN Raised
    ELSE IF strip(e.text) # <<>> THEN Value(lower(strip(e.text)))
    ELSE IF "attribute" \in e.raises THEN Raised
    ELSE Value(lower(Or(e.aria, Or(e.name, <<>>))))

\* the verdict without the read of the role attribute
is_safe_by_text(e) ==
    LET t == SafetyText(e)
    IN  IF t.raised THEN FALSE
        ELSE IF \E bad \in avoid_keywords : Contains(bad, t.val) THEN FALSE
        ELSE TRUE

is_safe_element(e) ==
    LET t == SafetyText(e)
    IN  IF t.raised THEN FALSE
        ELSE IF \E bad \in avoid_keywords : Contains(bad, t.val) THEN FALSE
        ELSE IF "attribute" \in e.raises THEN FALSE
        ELSE IF e.role \in DialogRoles THEN FALSE
        ELSE TRUE

\* el.text.strip()[:50] or el.get_attribute("aria-label") or "unlabeled"
LabelText(e) ==
    IF "text" \in e.raises THEN Raised
    ELSE IF Prefix(strip(e.text), LogTextLen) # <<>>
         THEN Value(Prefix(strip(e.text), LogTextLen))
    ELSE IF "attribute" \in e.raises THEN Raised
    ELSE Value(Or(e.aria, StrUnlabeled))

\* not el.is_displayed() or not el.is_enabled(), with a raise dropping too
DisplayedAndEnabled(e) ==
    IF "displayed" \in e.raises THEN FALSE
    ELSE IF ~e.displayed THEN FALSE
    ELSE IF "enabled" \in e.raises THEN FALSE
    ELSE e.enabled

\* what the filter loop reads from an element
Reads(e) ==
    [shown |-> DisplayedAndEnabled(e), safe |-> is_safe_element(e),
     signature |-> get_element_signature(e), label |-> LabelText(e)]

\* the reads of the elements of the universe, as a tuple indexed by element
RECURSIVE ReadsUpTo(_)
ReadsUpTo(k) ==
    IF k = 0 THEN <<>> ELSE Append(ReadsUpTo(k - 1), Reads(Elem[k]))

ElemReads == ReadsUpTo(Len(Elem))

Signature(id) == ElemReads[id].signature
Safe(id) == ElemReads[id].safe
Shown(id) == ElemReads[id].shown
Label(id) == ElemReads[id].label

\* the filter loop without the call of is_safe_element
SurvivesUnchecked(id, visited) ==
    /\ Shown(id)
    /\ Signature(id) # NoSig
    /\ Signature(id) \notin visited
    /\ "size" \notin Elem[id].raises
    /\ ~Label(id).raised

\* the body of the filter loop for one candidate: TRUE when it is appended
Survives(id, visited) ==
    /\ Shown(id)
    /\ Safe(id)
    /\ Signature(id) # NoSig
    /\ Signature(id) \notin visited
    /\ "size" \notin Elem[id].raises
    /\ ~Label(id).raised

Item(id) ==
    [element |-> id, signature |-> Signature(id), text |-> Label(id).val,
     y |-> Elem[id].y, x |-> Elem[id].x, area |-> Elem[id].w * Elem[id].h]

RECURSIVE ValidElements(_, _)
ValidElements(cands, visited) ==
    IF cands = <<>> THEN <<>>
    ELSE (IF Survives(Head(cands), visited) THEN <<Item(Head(cands))>> ELSE <<>>)
         \o ValidElements(Tail(cands), visited)

\* the key with the area not negated
SortKeySmallFirst(k) == <<k.y \div RowBucket, k.x \div RowBucket, k.area>>

\* key=lambda k: (k['y'] // 100, k['x'] // 100, -k['area'])
SortKey(k) == <<k.y \div RowBucket, k.x \div RowBucket, 0 - k.area>>

\* tuple comparison a < b
TupleLess(a, b) ==
    \/ a[1] < b[1]
    \/ a[1] = b[1] /\ a[2] < b[2]
    \/ a[1] = b[1] /\ a[2] = b[2] /\ a[3] < b[3]

\* list.sort is stable: an item goes before every later item whose key is
\* not smaller, that is, after the items of the sorted rest with a smaller key
InsertByKey(item, sorted) ==
    LET before == {k \in 1..Len(sorted) :
                     TupleLess(SortKey(sorted[k]), SortKey(item))}
        pos == Cardinality(before)
    IN  SubSeq(sorted, 1, pos) \o <<item>> \o SubSeq(sorted, pos + 1, Len(sorted))

\* valid_elements.sort(key=...); a bound variable over a singleton holds a
\* value that is computed once
RECURSIVE SortByKey(_)
SortByKey(items) ==
    IF items = <<>> THEN <<>>
    ELSE CHOOSE r \in {InsertByKey(Head(items), rest) :
                          rest \in {SortByKey(Tail(items))}} : TRUE

\* the first item of the sorted list whose signature is not visited
RECURSIVE FirstUnvisited(_, _)
FirstUnvisited(items, visited) ==
    IF items = <<>> THEN <<>>
    ELSE IF Head(items).signature \notin visited THEN <<Head(items)>>
    ELSE FirstUnvisited(Tail(items), visited)

\* what get_next_interactive_element picks from a candidate list: <<>> or <<item>>
NextItem(cands, visited) ==
    CHOOSE r \in {FirstUnvisited(sorted, visited) :
                     sorted \in {SortByKey(valid) :
                                   valid \in {ValidElements(cands, visited)}}} : TRUE

\* candidates.extend(elements) over the selectors, in document order, a
\* selector whose find_elements raises contributing nothing
RECURSIVE Matches(_, _)
Matches(docOrder, sel) ==
    IF docOrder = <<>> THEN <<>>
    ELSE (IF sel \in Elem[Head(docOrder)].sels THEN <<Head(docOrder)>> ELSE <<>>)
         \o Matches(Tail(docOrder), sel)

RECURSIVE Candidates(_, _, _)
Candidates(docOrder, failing, sel) ==
    IF sel > NumSelectors THEN <<>>
    ELSE (IF sel \in failing THEN <<>> ELSE Matches(docOrder, sel))
         \o Candidates(docOrder, failing, sel + 1)

\* the orders in which a set of elements can be listed
Orders(S) ==
    {o \in [1..Cardinality(S) -> S] : \A a, b \in 1..Cardinality(S) : a # b => o[a] # o[b]}

\* ------------------------------------------------------ ScreenshotCapture
PREFER_FULL_PAGE == TRUE

\* what the driver does during one capture: script (the three
\* execute_script reads succeed), short (total_height <= viewport_height * 1.2),
\* setOverride / capture / clear (the three CDP commands succeed), write (the
\* file write succeeds), save[k] (the k-th save_screenshot call succeeds)
CaptureOutcomes ==
    [script : BOOLEAN, short : BOOLEAN, setOverride : BOOLEAN,
     capture : BOOLEAN, clear : BOOLEAN, write : BOOLEAN,
     save : [1..3 -> BOOLEAN]]

\* ok: the value returned; saves: save_screenshot calls made; override:
\* the device-metrics override is still set on return
Captured(ok, saves, override) == [ok |-> ok, saves |-> saves, override |-> override]

full_page_capture(o) ==
    IF ~o.script THEN Captured(FALSE, 0, FALSE)
    ELSE IF o.short THEN Captured(o.save[1], 1, FALSE)
    ELSE IF ~o.setOverride THEN Captured(o.save[1], 1, FALSE)
    ELSE IF ~o.capture THEN Captured(o.save[1], 1, TRUE)
    ELSE IF ~o.clear THEN Captured(o.save[1], 1, TRUE)
    ELSE IF ~o.write THEN Captured(o.save[1], 1, FALSE)
    ELSE Captured(TRUE, 0, FALSE)

\* a save_screenshot in the try block, then the one of the except handler
SaveWithFallback(o, done, override) ==
    IF o.save[done + 1] THEN Captured(TRUE, done + 1, override)
    ELSE Captured(o.save[done + 2], done + 2, override)

capture_web_screenshot(method, o) ==
    LET f == full_page_capture(o)
    IN  IF method = "full" THEN f
        ELSE IF method = "smart"
        THEN IF PREFER_FULL_PAGE
             THEN IF f.ok THEN f ELSE SaveWithFallback(o, f.saves, f.override)
             ELSE SaveWithFallback(o, 0, FALSE)
        ELSE SaveWithFallback(o, 0, FALSE)

\* the values capture_web_screenshot can return
CaptureResults(method) ==
    {capture_web_screenshot(method, o).ok : o \in CaptureOutcomes}

FullCaptureResults == CaptureResults("full")

\* ---------------------------------------------------------- BrowserManager
\* get_available_browsers: edge when installed, then chrome
get_available_browsers(edgeInstalled) ==
    IF edgeInstalled THEN <<"edge", "chrome">> ELSE <<"chrome">>

\* the for/try/break loop over the browsers: the first whose create_driver
\* does not raise, or "none"
RECURSIVE FirstDriver(_, _)
FirstDriver(browsers, working) ==
    IF browsers = <<>> THEN "none"
    ELSE IF Head(browsers) \in working THEN Head(browsers)
    ELSE FirstDriver(Tail(browsers), working)

\* ------------------------------------------------- process_run.py: SSIM
\* Images.  A decoded image is [w, h, px]: px = <<a>> is an image of w x h
\* pixels that all have the gray level a, px = <<a, b>> is the row of two
\* pixels a, b (w = 2, h = 1).  The gray value of level m is 51 * m, R = G = B.
\* On these images cv2.GaussianBlur (11 x 11, sigma 1.5, reflected border)
\* is the mean of the pixels of the image: exactly for one level, and with
\* the weights 0.49995 / 0.50005 taken as one half for the row of two.
Levels == {0, 1, 2}

\* sizes of the images of one level
Sizes == {<<1, 1>>, <<7, 7>>, <<10, 5>>, <<10, 7>>, <<40, 25>>, <<40, 26>>}

Image(w, h, px) == [kind |-> "image", w |-> w, h |-> h, px |-> px]

\* bytes that cv2.imdecode cannot decode, and no bytes at all
Junk == [kind |-> "junk", w |-> 0, h |-> 0, px |-> <<>>]
NoBytes == [kind |-> "none", w |-> 0, h |-> 0, px |-> <<>>]

\* the rows of two pixels: the sum of the levels is even, so that the mean
\* of the two gray values is a gray value of a level
Rows == {<<0, 2>>, <<2, 0>>, <<1, 1>>, <<0, 0>>, <<2, 2>>}

Images ==
    {Image(s[1], s[2], <<a>>) : s \in Sizes, a \in Levels}
        \cup {Image(2, 1, r) : r \in Rows}

\* the buffers handed to compute_ssim_and_diff
Buffers == Images \cup {Junk}

\* _bytes_to_rgb_array: the decoded image, or ValueError when imdecode
\* returns None
DecodeFails(buf) == buf.kind # "image"

\* the size of the first image taken as the common size
FirstOf(a, b) == a

\* min(w1, w2), min(h1, h2)
Min(a, b) == IF a <= b THEN a ELSE b

\* cv2.resize(..., (w, h), interpolation=cv2.INTER_AREA) to a size that is
\* not larger: the area average; a row of two shrunk to one column is the
\* mean of its two pixels
AreaResize(img, w, h) ==
    IF Len(img.px) = 2 /\ w = 1
    THEN Image(w, h, <<(img.px[1] + img.px[2]) \div 2>>)
    ELSE Image(w, h, img.px)

\* a grid of one level seen as a row of len equal pixels
AsRow(px, len) == IF Len(px) = len THEN px ELSE <<px[1], px[1]>>

\* Arithmetic.  Squares of gray values are counted in units of
\* C1 = (0.01 * 255)^2 = 51^2 / 400, so that C2 = (0.03 * 255)^2 is 9, and a
\* blurred value is kept as the sum of the two levels of its row, twice their
\* mean: the product of two blurred values is 51^2 / 4 = 100 units for each
\* unit of the product of the two sums.
SsimC1 == 1
SsimC2 == 9
LevelProduct == 100

\* twice GaussianBlur(gray) at every pixel of a row
Blur2(row) == row[1] + row[2]

\* gray1 * gray2, pixel by pixel
Times(p, q) == <<p[1] * q[1], p[2] * q[2]>>

\* a rational number
Ratio(num, den) == [num |-> num, den |-> den]

\* a numerator without the factors 2
SsimNumSingle(mu, sigma) ==
    (LevelProduct * mu + SsimC1) * (LevelProduct * sigma + SsimC2)

\* num = (2 * mu1_mu2 + C1) * (2 * sigma12 + C2)
SsimNum(mu, sigma) ==
    (2 * LevelProduct * mu + SsimC1) * (2 * LevelProduct * sigma + SsimC2)

\* den = (mu1_sq + mu2_sq + C1) * (sigma1_sq + sigma2_sq + C2)
SsimDen(mu, sigma) ==
    (LevelProduct * mu + SsimC1) * (LevelProduct * sigma + SsimC2)

\* the value of ssim_map at every pixel, for two rows of two pixels:
\* num / den where den # 0 and 0 elsewhere
SsimMapValue(p, q) ==
    LET mu1_mu2 == Blur2(p) * Blur2(q)
        mu1_sq == Blur2(p) * Blur2(p)
        mu2_sq == Blur2(q) * Blur2(q)
        sigma1_sq == 2 * Blur2(Times(p, p)) - mu1_sq
        sigma2_sq == 2 * Blur2(Times(q, q)) - mu2_sq
        sigma12 == 2 * Blur2(Times(p, q)) - mu1_mu2
        num == SsimNum(mu1_mu2, sigma12)
        den == SsimDen(mu1_sq + mu2_sq, sigma1_sq + sigma2_sq)
    IN  IF den # 0 THEN Ratio(num, den) ELSE Ratio(0, 1)

\* the threshold of cv2.threshold and the least area of a region
DiffThreshold == 30
MinRegionArea == 50

\* diff_norm = (clip(1 - ssim, 0, 1) * 255).astype('uint8'), den > 0
DiffNorm(s) ==
    IF s.num >= s.den THEN 0
    ELSE IF s.num <= 0 THEN 255
    ELSE (255 * (s.den - s.num)) \div s.den

\* cv2.threshold(diff_norm, 30, 255, THRESH_BINARY), findContours and
\* boundingRect on a map that has one value everywhere: the whole grid when
\* the value is above the threshold, nothing otherwise
BoundingRects(s, w, h) ==
    IF DiffNorm(s) > DiffThreshold
    THEN <<[x |-> 0, y |-> 0, width |-> w, height |-> h]>>
    ELSE <<>>

\* an area test that keeps every box
KeepAnyArea(area) == TRUE

\* `if area < 50: continue`
KeepArea(area) == ~(area < MinRegionArea)

RECURSIVE RegionsOf(_)
RegionsOf(rects) ==
    IF rects = <<>> THEN <<>>
    ELSE LET r == Head(rects)
             area == r.width * r.height
         IN  (IF KeepArea(area)
              THEN <<[x |-> r.x, y |-> r.y, width |-> r.width,
                      height |-> r.height, area |-> area]>>
              ELSE <<>>) \o RegionsOf(Tail(rects))

\* compute_ssim_and_diff on two decodable buffers: the score as a rational
\* (similarity_percent is 100 times the score) and the regions
compute_ssim_and_diff(img1, img2) ==
    LET w == Min(img1.w, img2.w)
        h == Min(img1.h, img2.h)
        r1 == AreaResize(img1, w, h)
        r2 == AreaResize(img2, w, h)
        s == SsimMapValue(AsRow(r1.px, 2), AsRow(r2.px, 2))
    IN  [score |-> s, regions |-> RegionsOf(BoundingRects(s, w, h))]

\* ------------------------------------------------------------ AutoDocEngine
VARIABLES
    MAX_SCREENSHOTS,      \* Config.MAX_SCREENSHOTS, process-wide
    pc,                   \* position of the current call
    max_screenshots,      \* the argument: <<>> for None, <<k>> for k
    driver,               \* "none", "edge" or "chrome"
    dom,                  \* interactive elements of the page in the browser
    candidates,           \* local of get_next_interactive_element
    visited_signatures,   \* explorer.visited_signatures
    interaction_log,      \* explorer.interaction_log
    screenshots,          \* the list being built
    screenshot_count,
    i,                    \* index of the for loop
    n,                    \* length of its range
    element,              \* the element returned by the last scan
    text,                 \* its label
    exc,                  \* an exception is propagating
    quits,                \* driver.quit() calls of the current call
    result,               \* how the last call ended
    returned,             \* the value it returned
    wpc,                  \* position of the worker (process_run.py)
    run_status,           \* runs.status of the run: "none" before it exists
    run_totals,           \* <<total_images, changes_detected>> once completed
    comparisons,          \* the rows of the comparisons table of the run
    change_details,       \* the rows of the change_details table of the run
    tolerance,            \* locals of process_run_id
    app_url,
    doc_images,
    doc_index,            \* the docs of doc_images the for loop has taken
    screenshot_bytes,
    doc_bytes,
    similarity,           \* <<>> for None, <<score>> otherwise
    regions,
    status,
    comp_row,             \* the insert returned a row
    total_images,
    changes_detected,
    wexc,                 \* an exception is propagating in process_run_id
    cap_method,           \* the method of a capture_web_screenshot call
    cap_outcome,          \* what the driver does during that call
    cap_result            \* <<>>, or <<what the call returned and did>>

vars == <<MAX_SCREENSHOTS, pc, max_screenshots, driver, dom, candidates,
          visited_signatures, interaction_log, screenshots, screenshot_count,
          i, n, element, text, exc, quits, result, returned,
          wpc, run_status, run_totals, comparisons, change_details,
          tolerance, app_url, doc_images, doc_index, screenshot_bytes,
          doc_bytes, similarity, regions, status, comp_row, total_images,
          changes_detected, wexc, cap_method, cap_outcome, cap_result>>

\* one call of capture_web_screenshot
capture == <<cap_method, cap_outcome, cap_result>>

\* no such call
NoCapture ==
    /\ cap_method = "none"
    /\ cap_outcome = "none"
    /\ cap_result = <<>>

\* the state of the worker
worker == <<wpc, run_status, run_totals, comparisons, change_details,
            tolerance, app_url, doc_images, doc_index, screenshot_bytes,
            doc_bytes, similarity, regions, status, comp_row, total_images,
            changes_detected, wexc>>

\* the locals of process_run_id
wlocals == <<tolerance, app_url, doc_images, doc_index, screenshot_bytes,
             doc_bytes, similarity, regions, status, comp_row, total_images,
             changes_detected, wexc>>

\* `tolerance = ... if project else 98.0`
DefaultTolerance == 98

NoWorkerLocals ==
    /\ tolerance = DefaultTolerance /\ app_url = FALSE
    /\ doc_images = <<>> /\ doc_index = 0
    /\ screenshot_bytes = NoBytes /\ doc_bytes = NoBytes
    /\ similarity = <<>> /\ regions = <<>> /\ status = "error"
    /\ comp_row = FALSE
    /\ total_images = 0 /\ changes_detected = 0
    /\ wexc = FALSE

\* no run has been submitted and the worker waits
WorkerIdle ==
    /\ wpc = "Idle"
    /\ run_status = "none"
    /\ run_totals = <<>>
    /\ comparisons = <<>>
    /\ change_details = <<>>
    /\ NoWorkerLocals

\* the locals of a call that is not running
locals == <<driver, dom, candidates, visited_signatures, interaction_log,
            screenshots, screenshot_count, i, n, element, text, exc>>

NoLocals ==
    /\ driver = "none" /\ dom = {} /\ candidates = <<>>
    /\ visited_signatures = {} /\ interaction_log = <<>>
    /\ screenshots = <<>> /\ screenshot_count = 0
    /\ i = 0 /\ n = 0 /\ element = NoElement /\ text = <<>>
    /\ exc = FALSE

Init ==
    /\ MAX_SCREENSHOTS = DefaultMaxScreenshots
    /\ pc = "Idle"
    /\ max_screenshots = <<>>
    /\ result = "none"
    /\ returned = <<>>
    /\ quits = 0
    /\ NoLocals
    /\ WorkerIdle
    /\ NoCapture

Args == {<<>>} \cup {<<k>> : k \in 0..MaxArg}

\* `if max_screenshots:` is false for None and for 0
Truthy(a) == a # <<>> /\ a[1] # 0

\* a bound that every call without a truthy argument puts back to the default
ConfiguredMaxReset(a, current) ==
    IF Truthy(a) THEN a[1] ELSE DefaultMaxScreenshots

ConfiguredMax(a, current) == IF Truthy(a) THEN a[1] ELSE current

\* lines 395-399: the call starts, the argument overwrites the Config value
Call ==
    /\ pc = "Idle"
    /\ \E a \in Args :
        /\ max_screenshots' = a
        /\ MAX_SCREENSHOTS' = ConfiguredMax(a, MAX_SCREENSHOTS)
    /\ pc' = "CreateDriver"
    /\ result' = "none"
    /\ returned' = <<>>
    /\ quits' = 0
    /\ UNCHANGED locals
    /\ UNCHANGED worker
    /\ UNCHANGED capture

\* lines 401-415: a driver is created or the call raises; the explorer and
\* the screenshot list are created
CreateDriver ==
    /\ pc = "CreateDriver"
    /\ \E edgeInstalled \in BOOLEAN, working \in SUBSET {"edge", "chrome"} :
        LET d == FirstDriver(get_available_browsers(edgeInstalled), working)
        IN  IF d = "none"
            THEN /\ pc' = "Idle"
                 /\ result' = "no_browser"
                 /\ UNCHANGED <<driver>>
            ELSE /\ pc' = "LoadPage"
                 /\ driver' = d
                 /\ UNCHANGED <<result>>
    /\ UNCHANGED <<MAX_SCREENSHOTS, max_screenshots, dom, candidates,
                   visited_signatures, interaction_log, screenshots,
                   screenshot_count, i, n, element, text, exc, quits, returned>>
    /\ UNCHANGED worker
    /\ UNCHANGED capture

LoadOutcomes == {"ok", "get_raises", "wait_timeout", "wait_raises"}

\* lines 417-429: driver.get and the wait for the body; only the
\* TimeoutException of the wait is caught
LoadPage ==
    /\ pc = "LoadPage"
    /\ \E o \in LoadOutcomes, d \in Doms :
        IF o \in {"ok", "wait_timeout"}
        THEN /\ dom' = d
             /\ pc' = "Baseline"
             /\ UNCHANGED exc
        ELSE /\ dom' = (IF o = "get_raises" THEN dom ELSE d)
             /\ pc' = "Finally"
             /\ exc' = TRUE
    /\ UNCHANGED <<MAX_SCREENSHOTS, max_screenshots, driver, candidates,
                   visited_signatures, interaction_log, screenshots,
                   screenshot_count, i, n, element, text, quits, result, returned>>
    /\ UNCHANGED worker
    /\ UNCHANGED capture

\* the path of a capture: screen_<count>_initial_full / screen_<count>_action_<t>_full
Path(count, kind) == <<count, kind>>

\* lines 431-453: the baseline capture, the test against MAX_SCREENSHOTS, the
\* scroll to the top (a failure is passed over) and the range of the loop
Baseline ==
    /\ pc = "Baseline"
    /\ \E ok \in FullCaptureResults :
        LET count == IF ok THEN 1 ELSE 0
        IN  /\ screenshots' = (IF ok THEN <<Path(0, "initial")>> ELSE <<>>)
            /\ screenshot_count' = count
            /\ IF count < MAX_SCREENSHOTS
               THEN /\ pc' = "Loop"
                    /\ n' = MAX_SCREENSHOTS - count
               ELSE /\ pc' = "Finally"
                    /\ UNCHANGED n
    /\ i' = 0
    /\ UNCHANGED <<MAX_SCREENSHOTS, max_screenshots, driver, dom,
                   candidates, visited_signatures, interaction_log, element,
                   text, exc, quits, result, returned>>
    /\ UNCHANGED worker
    /\ UNCHANGED capture

\* the selectors that match something on a page; a raise of any other
\* selector changes nothing
UsedSelectors(page) == UNION {Elem[id].sels : id \in page}

\* the lists find_elements can build from a page: any document order, any
\* set of selectors raising
CandidateLists(page) ==
    {Candidates(order, failing, 1) :
        order \in Orders(page), failing \in SUBSET UsedSelectors(page)}

\* a loop that only the lack of candidates ends
InRangeForever(k, len) == TRUE

\* for i in range(n): the body runs while i < n
InRange(k, len) == k < len

\* lines 215-221 of get_next_interactive_element, called at line 454: the
\* selectors are evaluated on the page, in some document order
FindElements ==
    /\ pc = "Loop"
    /\ InRange(i, n)
    /\ candidates' \in CandidateLists(dom)
    /\ pc' = "Scanning"
    /\ UNCHANGED <<MAX_SCREENSHOTS, max_screenshots, driver, dom,
                   visited_signatures, interaction_log, screenshots,
                   screenshot_count, i, n, element, text, exc, quits,
                   result, returned>>
    /\ UNCHANGED worker
    /\ UNCHANGED capture

\* the range is exhausted: the for loop ends
LoopExit ==
    /\ pc = "Loop"
    /\ ~InRange(i, n)
    /\ pc' = "Finally"
    /\ UNCHANGED <<MAX_SCREENSHOTS, max_screenshots, driver, dom,
                   candidates, visited_signatures, interaction_log,
                   screenshots, screenshot_count, i, n, element, text, exc,
                   quits, result, returned>>
    /\ UNCHANGED worker
    /\ UNCHANGED capture

\* the add left out
AddVisitedForgets(visited, sig) == visited

\* the set replaced by the new signature
AddVisitedAlone(visited, sig) == {sig}

\* self.visited_signatures.add(sig)
AddVisited(visited, sig) == visited \cup {sig}

\* self.interaction_log.append({...}); the timestamp is left out
LogEntry(item) == [signature |-> item.signature, text |-> item.text]

\* an empty scan after which the for loop goes on
AfterEmptyScanLoop == "Loop"

\* `if not element: break`, lines 456-458
AfterEmptyScan == "Finally"

\* lines 223-268 and 456-460: filter, sort, select; the selected signature is
\* recorded before the element is returned; no element ends the loop
SelectNext ==
    /\ pc = "Scanning"
    /\ \E picked \in {NextItem(candidates, visited_signatures)} :
           IF picked = <<>>
           THEN /\ element' = NoElement
                /\ text' = <<>>
                /\ pc' = AfterEmptyScan
                /\ UNCHANGED <<visited_signatures, interaction_log>>
           ELSE /\ visited_signatures' =
                        AddVisited(visited_signatures, picked[1].signature)
                /\ interaction_log' = Append(interaction_log, LogEntry(picked[1]))
                /\ element' = picked[1].element
                /\ text' = picked[1].text
                /\ pc' = "Acting"
    /\ candidates' = <<>>
    /\ UNCHANGED <<MAX_SCREENSHOTS, max_screenshots, driver, dom,
                   screenshots, screenshot_count, i, n, exc, quits, result,
                   returned>>
    /\ UNCHANGED worker
    /\ UNCHANGED capture

\* break in place of continue
AfterFailureBreak == "Finally"

\* what except/continue does with a failed action: the loop goes on
AfterFailure == "Loop"

\* lines 462-469: scrollIntoView and click succeed; the click may change
\* the page; the capture follows
Click ==
    /\ pc = "Acting"
    /\ dom' \in Doms
    /\ pc' = "Capturing"
    /\ UNCHANGED <<MAX_SCREENSHOTS, max_screenshots, driver, candidates,
                   visited_signatures, interaction_log, screenshots,
                   screenshot_count, i, n, element, text, exc, quits, result,
                   returned>>
    /\ UNCHANGED worker
    /\ UNCHANGED capture

\* lines 462-469 and 480-482: scrollIntoView or click raises; the exception
\* is caught and the for loop continues with the next index
ActionRaises ==
    /\ pc = "Acting"
    /\ pc' = AfterFailure
    /\ i' = i + 1
    /\ UNCHANGED <<MAX_SCREENSHOTS, max_screenshots, driver, dom, candidates,
                   visited_signatures, interaction_log, screenshots,
                   screenshot_count, n, element, text, exc, quits, result,
                   returned>>
    /\ UNCHANGED worker
    /\ UNCHANGED capture

\* a count that goes up with every capture requested
CountAnyCapture(count, ok) == count + 1

\* `if capture_web_screenshot(...): ... screenshot_count += 1`
CountCapture(count, ok) == IF ok THEN count + 1 ELSE count

\* lines 471-478: the capture after the click; False appends nothing
Capture ==
    /\ pc = "Capturing"
    /\ \E ok \in FullCaptureResults :
        /\ screenshots' =
               (IF ok THEN Append(screenshots, Path(screenshot_count, "action"))
                ELSE screenshots)
        /\ screenshot_count' = CountCapture(screenshot_count, ok)
    /\ pc' = "Loop"
    /\ i' = i + 1
    /\ UNCHANGED <<MAX_SCREENSHOTS, max_screenshots, driver, dom,
                   candidates, visited_signatures, interaction_log, n,
                   element, text, exc, quits, result, returned>>
    /\ UNCHANGED worker
    /\ UNCHANGED capture

\* a quit placed after the try statement: it is skipped when an exception
\* propagates
QuitAfterTry(count, raising) == IF raising THEN count ELSE count + 1

\* finally: if driver: driver.quit(), lines 484-486, on every path
QuitInFinally(count, raising) == count + 1

\* an explorer that outlives the call
KeptExplorer ==
    [visited_signatures |-> visited_signatures,
     interaction_log |-> interaction_log]

\* DeterministicExplorer.__init__, lines 157-163
NewExplorer == [visited_signatures |-> {}, interaction_log |-> <<>>]

\* lines 484-488: driver.quit() in the finally block, then the return, or the
\* exception going on to the caller; the locals of the call are gone, and the
\* next call starts from the explorer it creates at line 414
Finally ==
    /\ pc = "Finally"
    /\ \E quitOk \in BOOLEAN :
        IF exc \/ ~quitOk
        THEN /\ result' = "raised"
             /\ returned' = <<>>
        ELSE /\ result' = "returned"
             /\ returned' = screenshots
    /\ pc' = "Idle"
    /\ driver' = "none" /\ dom' = {} /\ candidates' = <<>>
    /\ visited_signatures' = NewExplorer.visited_signatures
    /\ interaction_log' = NewExplorer.interaction_log
    /\ screenshots' = <<>> /\ screenshot_count' = 0
    /\ i' = 0 /\ n' = 0 /\ element' = NoElement /\ text' = <<>>
    /\ exc' = FALSE
    /\ quits' = QuitInFinally(quits, exc)
    /\ UNCHANGED <<MAX_SCREENSHOTS, max_screenshots>>
    /\ UNCHANGED worker
    /\ UNCHANGED capture

Next ==
    \/ Call
    \/ CreateDriver
    \/ LoadPage
    \/ Baseline
    \/ FindElements
    \/ LoopExit
    \/ SelectNext
    \/ Click
    \/ ActionRaises
    \/ Capture
    \/ Finally

Spec == Init /\ [][Next]_vars

\* every step of a call that has started is eventually taken: each
\* collaborator call returns or raises
Running ==
    \/ CreateDriver \/ LoadPage \/ Baseline \/ FindElements \/ LoopExit
    \/ SelectNext \/ Click \/ ActionRaises \/ Capture \/ Finally

FairSpec == Spec /\ WF_vars(Running)

\* ------------------------------------------------ the explorer on one page
\* The scans of one session on a page that stays as it is: the controller
\* after a successful baseline capture, every action raising, on a page made
\* of any elements of the universe.
ScanDoms == {d \in SUBSET ElemIds : Cardinality(d) <= MaxScanDom}

ScanInit ==
    /\ \E m \in 2..DefaultMaxScreenshots :
        /\ max_screenshots = <<m>>
        /\ MAX_SCREENSHOTS = m
        /\ n = m - 1
    /\ pc = "Loop"
    /\ driver = "chrome"
    /\ dom \in ScanDoms
    /\ candidates = <<>>
    /\ visited_signatures = {}
    /\ interaction_log = <<>>
    /\ screenshots = <<Path(0, "initial")>>
    /\ screenshot_count = 1
    /\ i = 0
    /\ element = NoElement
    /\ text = <<>>
    /\ exc = FALSE
    /\ quits = 0
    /\ result = "none"
    /\ returned = <<>>
    /\ WorkerIdle
    /\ NoCapture

ScanNext ==
    \/ FindElements
    \/ SelectNext
    \/ ActionRaises
    \/ LoopExit

ScanSpec == ScanInit /\ [][ScanNext]_vars

TypeOK ==
    /\ MAX_SCREENSHOTS >= 1
    /\ pc \in {"Idle", "CreateDriver", "LoadPage", "Baseline", "Loop",
               "Scanning", "Acting", "Capturing", "Finally"}
    /\ Len(max_screenshots) <= 1
    /\ driver \in {"none", "edge", "chrome"}
    /\ element \in ElemIds \cup {NoElement}
    /\ screenshot_count = Len(screenshots)
    /\ i \in 0..n
    /\ n \in 0..MAX_SCREENSHOTS
    /\ exc \in BOOLEAN
    /\ result \in {"none", "no_browser", "raised", "returned"}

\* --------------------------------------------- process_run.py: the worker
\* bound on the doc images of a project
MaxDocs == 2

Tolerances == {80, 98}

\* a doc image: whether the documents row has a storage_url
Doc(url) == [url |-> url]

RECURSIVE SeqsUpTo(_, _)
SeqsUpTo(S, len) ==
    IF len = 0 THEN {<<>>}
    ELSE LET shorter == SeqsUpTo(S, len - 1)
         IN  shorter \cup {Append(q, x) : q \in {t \in shorter : Len(t) = len - 1}, x \in S}

\* lines 238-260: the doc images of the project; the list is never empty
DocLists == SeqsUpTo({Doc(TRUE), Doc(FALSE)}, MaxDocs) \ {<<>>}

\* what page.screenshot returns and what the docs bucket holds
WorkerShots == {Image(40, 26, <<2>>)}
WorkerDocs ==
    {Image(40, 26, <<2>>), Image(40, 26, <<1>>), Image(40, 25, <<1>>), Junk}

\* `if doc_bytes and screenshot_bytes:`
Present(buf) == buf.kind # "none"

\* similarity >= float(tolerance), similarity being 100 times the score
AtLeastPercent(sc, percent) == 100 * sc.num >= percent * sc.den

\* a comparison that lets the exception of the decoder through
CompareUncaught(b1, b2, tol) ==
    IF DecodeFails(b1) \/ DecodeFails(b2)
    THEN [similarity |-> <<>>, regions |-> <<>>, status |-> "error",
          changed |-> 0, raised |-> TRUE]
    ELSE LET res == compute_ssim_and_diff(b1, b2)
             st == IF AtLeastPercent(res.score, tol) THEN "matched" ELSE "changed"
         IN  [similarity |-> <<res.score>>, regions |-> res.regions,
              status |-> st, changed |-> IF st = "changed" THEN 1 ELSE 0,
              raised |-> FALSE]

\* lines 343-352: try compute_ssim_and_diff and the status; except
\* Exception: similarity = None, status = 'error'; regions is still []
CompareCaught(b1, b2, tol) ==
    IF DecodeFails(b1) \/ DecodeFails(b2)
    THEN [similarity |-> <<>>, regions |-> <<>>, status |-> "error",
          changed |-> 0, raised |-> FALSE]
    ELSE LET res == compute_ssim_and_diff(b1, b2)
             st == IF AtLeastPercent(res.score, tol) THEN "matched" ELSE "changed"
         IN  [similarity |-> <<res.score>>, regions |-> res.regions,
              status |-> st, changed |-> IF st = "changed" THEN 1 ELSE 0,
              raised |-> FALSE]

\* line 367: 'major' if similarity is not None and similarity < 90 else
\* ('minor' if similarity is not None and similarity < tolerance else None)
ChangeSeverity(sim, tol) ==
    IF sim # <<>> /\ ~AtLeastPercent(sim[1], 90) THEN "major"
    ELSE IF sim # <<>> /\ ~AtLeastPercent(sim[1], tol) THEN "minor"
    ELSE "null"

\* lines 359-369: comp_insert
ComparisonRow(sim, st, tol) ==
    [similarity_score |-> sim, status |-> st,
     change_severity |-> ChangeSeverity(sim, tol)]

MajorArea == 1000

\* 'major' from the area 1000 on
RegionSeverityFrom(area) == IF area >= MajorArea THEN "major" ELSE "minor"

\* line 422: 'major' if reg.get('area', 0) > 1000 else 'minor'
RegionSeverity(area) == IF area > MajorArea THEN "major" ELSE "minor"

\* lines 414-428: cd, for the region reg of the comparison row number comp
ChangeDetail(comp, reg) ==
    [comparison |-> comp, area |-> reg.area, severity |-> RegionSeverity(reg.area)]

RECURSIVE DetailsOf(_, _)
DetailsOf(comp, regs) ==
    IF regs = <<>> THEN <<>>
    ELSE <<ChangeDetail(comp, Head(regs))>> \o DetailsOf(comp, Tail(regs))

\* a user creates a run: a new row of runs with status 'pending'
SubmitRun ==
    /\ wpc = "Idle"
    /\ run_status # "pending"
    /\ run_status' = "pending"
    /\ run_totals' = <<>>
    /\ comparisons' = <<>>
    /\ change_details' = <<>>
    /\ UNCHANGED wlocals
    /\ UNCHANGED <<wpc>>
    /\ UNCHANGED <<MAX_SCREENSHOTS, pc, max_screenshots, quits, result, returned>>
    /\ UNCHANGED locals
    /\ UNCHANGED capture

\* lines 464-468 and 222-235: the polling loop finds the pending run;
\* process_run_id reads the run and its project and marks it 'processing';
\* an update that raises ends the call with the run still pending
FetchRun ==
    /\ wpc = "Idle"
    /\ run_status = "pending"
    /\ \E tol \in Tolerances, url \in BOOLEAN, updated \in BOOLEAN :
        IF updated
        THEN /\ tolerance' = tol
             /\ app_url' = url
             /\ run_status' = "processing"
             /\ wpc' = "ListDocs"
        ELSE UNCHANGED <<tolerance, app_url, run_status, wpc>>
    /\ UNCHANGED <<run_totals, comparisons, change_details, doc_images,
                   doc_index, screenshot_bytes, doc_bytes, similarity, regions,
                   status, comp_row, total_images, changes_detected, wexc>>
    /\ UNCHANGED <<MAX_SCREENSHOTS, pc, max_screenshots, quits, result, returned>>
    /\ UNCHANGED locals
    /\ UNCHANGED capture

\* lines 238-263: the doc images are listed and the counters start at 0; a
\* select that raises ends the call
ListDocs ==
    /\ wpc = "ListDocs"
    /\ \E listed \in BOOLEAN, docs \in DocLists :
        IF listed
        THEN /\ doc_images' = docs
             /\ wpc' = "Launch"
             /\ UNCHANGED <<tolerance, app_url>>
        ELSE /\ doc_images' = <<>>
             /\ wpc' = "Idle"
             /\ tolerance' = DefaultTolerance /\ app_url' = FALSE
    /\ doc_index' = 0
    /\ total_images' = 0
    /\ changes_detected' = 0
    /\ UNCHANGED <<run_status, run_totals, comparisons, change_details,
                   screenshot_bytes, doc_bytes, similarity, regions, status,
                   comp_row, wexc>>
    /\ UNCHANGED <<MAX_SCREENSHOTS, pc, max_screenshots, quits, result, returned>>
    /\ UNCHANGED locals
    /\ UNCHANGED capture

\* lines 267-269: the browser and the page are created, or the call ends
\* with the exception
Launch ==
    /\ wpc = "Launch"
    /\ \E launched \in BOOLEAN :
        IF launched
        THEN /\ wpc' = "NextDoc"
             /\ UNCHANGED wlocals
        ELSE /\ wpc' = "Idle"
             /\ tolerance' = DefaultTolerance /\ app_url' = FALSE
             /\ doc_images' = <<>>
             /\ UNCHANGED <<doc_index, screenshot_bytes, doc_bytes, similarity,
                            regions, status, comp_row, total_images,
                            changes_detected, wexc>>
    /\ UNCHANGED <<run_status, run_totals, comparisons, change_details>>
    /\ UNCHANGED <<MAX_SCREENSHOTS, pc, max_screenshots, quits, result, returned>>
    /\ UNCHANGED locals
    /\ UNCHANGED capture

\* lines 272-338: the next doc image: the live screenshot (None without
\* app_url or when the page fails), the doc image (None when the download
\* fails), the upload, which never raises, and the defaults of the comparison
Acquire ==
    /\ wpc = "NextDoc"
    /\ doc_index < Len(doc_images)
    /\ doc_index' = doc_index + 1
    /\ total_images' = total_images + 1
    /\ screenshot_bytes' \in
           (IF app_url THEN WorkerShots ELSE {}) \cup {NoBytes}
    /\ doc_bytes' \in WorkerDocs \cup {NoBytes}
    /\ similarity' = <<>>
    /\ regions' = <<>>
    /\ status' = "error"
    /\ wpc' = "Compare"
    /\ UNCHANGED <<run_status, run_totals, comparisons, change_details,
                   tolerance, app_url, doc_images, comp_row,
                   changes_detected, wexc>>
    /\ UNCHANGED <<MAX_SCREENSHOTS, pc, max_screenshots, quits, result, returned>>
    /\ UNCHANGED locals
    /\ UNCHANGED capture

\* lines 342-355: the comparison when both images are there
Compare ==
    /\ wpc = "Compare"
    /\ IF Present(doc_bytes) /\ Present(screenshot_bytes)
       THEN \E out \in {CompareCaught(doc_bytes, screenshot_bytes, tolerance)} :
               /\ similarity' = out.similarity
               /\ regions' = out.regions
               /\ status' = out.status
               /\ changes_detected' = changes_detected + out.changed
               /\ wexc' = out.raised
               /\ wpc' = IF out.raised THEN "Close" ELSE "Insert"
       ELSE /\ status' = "error"
            /\ wpc' = "Insert"
            /\ UNCHANGED <<similarity, regions, changes_detected, wexc>>
    /\ UNCHANGED <<run_status, run_totals, comparisons, change_details,
                   tolerance, app_url, doc_images, doc_index,
                   screenshot_bytes, doc_bytes, comp_row, total_images>>
    /\ UNCHANGED <<MAX_SCREENSHOTS, pc, max_screenshots, quits, result, returned>>
    /\ UNCHANGED locals
    /\ UNCHANGED capture

\* lines 359-376: the comparison row is inserted; the insert may raise, and
\* may return no data
Insert ==
    /\ wpc = "Insert"
    /\ \E inserted \in BOOLEAN, row \in BOOLEAN :
        IF inserted
        THEN /\ comparisons' =
                    Append(comparisons, ComparisonRow(similarity, status, tolerance))
             /\ comp_row' = row
             /\ wpc' = "Details"
             /\ UNCHANGED wexc
        ELSE /\ wexc' = TRUE
             /\ wpc' = "Close"
             /\ UNCHANGED <<comparisons, comp_row>>
    /\ UNCHANGED <<run_status, run_totals, change_details, tolerance, app_url,
                   doc_images, doc_index, screenshot_bytes, doc_bytes,
                   similarity, regions, status, total_images, changes_detected>>
    /\ UNCHANGED <<MAX_SCREENSHOTS, pc, max_screenshots, quits, result, returned>>
    /\ UNCHANGED locals
    /\ UNCHANGED capture

\* lines 378-429: one change_details row for each region of a changed
\* comparison; the AI analysis is caught, an insert may raise
Details ==
    /\ wpc = "Details"
    /\ IF status = "changed" /\ comp_row
       THEN \E done \in 0..Len(regions) :
               /\ change_details' = change_details \o
                      DetailsOf(Len(comparisons), SubSeq(regions, 1, done))
               /\ wexc' = (done < Len(regions))
               /\ wpc' = IF done < Len(regions) THEN "Close" ELSE "NextDoc"
       ELSE /\ wpc' = "NextDoc"
            /\ UNCHANGED <<change_details, wexc>>
    /\ UNCHANGED <<run_status, run_totals, comparisons, tolerance, app_url,
                   doc_images, doc_index, screenshot_bytes, doc_bytes,
                   similarity, regions, status, comp_row, total_images,
                   changes_detected>>
    /\ UNCHANGED <<MAX_SCREENSHOTS, pc, max_screenshots, quits, result, returned>>
    /\ UNCHANGED locals
    /\ UNCHANGED capture

\* lines 430-436 and 448-449: the for loop is over or an exception is on its
\* way: page and browser are closed; an exception ends the call
Close ==
    /\ \/ wpc = "Close"
       \/ wpc = "NextDoc" /\ doc_index = Len(doc_images)
    /\ \E closed \in BOOLEAN :
        IF wexc \/ ~closed
        THEN /\ wpc' = "Idle"
             /\ tolerance' = DefaultTolerance /\ app_url' = FALSE
             /\ doc_images' = <<>> /\ doc_index' = 0
             /\ total_images' = 0 /\ changes_detected' = 0
        ELSE /\ wpc' = "Update"
             /\ UNCHANGED <<tolerance, app_url, doc_images, doc_index,
                            total_images, changes_detected>>
    /\ screenshot_bytes' = NoBytes /\ doc_bytes' = NoBytes
    /\ similarity' = <<>> /\ regions' = <<>> /\ status' = "error"
    /\ comp_row' = FALSE
    /\ wexc' = FALSE
    /\ UNCHANGED <<run_status, run_totals, comparisons, change_details>>
    /\ UNCHANGED <<MAX_SCREENSHOTS, pc, max_screenshots, quits, result, returned>>
    /\ UNCHANGED locals
    /\ UNCHANGED capture

\* lines 439-449: the run is marked 'completed' with its counters, unless
\* the update raises
Update ==
    /\ wpc = "Update"
    /\ \E updated \in BOOLEAN :
        IF updated
        THEN /\ run_status' = "completed"
             /\ run_totals' = <<total_images, changes_detected>>
        ELSE UNCHANGED <<run_status, run_totals>>
    /\ wpc' = "Idle"
    /\ tolerance' = DefaultTolerance /\ app_url' = FALSE
    /\ doc_images' = <<>> /\ doc_index' = 0
    /\ total_images' = 0 /\ changes_detected' = 0
    /\ UNCHANGED <<comparisons, change_details, screenshot_bytes, doc_bytes,
                   similarity, regions, status, comp_row, wexc>>
    /\ UNCHANGED <<MAX_SCREENSHOTS, pc, max_screenshots, quits, result, returned>>
    /\ UNCHANGED locals
    /\ UNCHANGED capture

WorkerNext ==
    \/ SubmitRun
    \/ FetchRun
    \/ ListDocs
    \/ Launch
    \/ Acquire
    \/ Compare
    \/ Insert
    \/ Details
    \/ Close
    \/ Update

WorkerSpec == Init /\ [][WorkerNext]_vars

\* ---------------------------------------------- compute_ssim_and_diff alone
\* One comparison of process_run_id on any two buffers: the worker at
\* line 342 with the doc image and the screenshot in hand.
SsimInit ==
    /\ MAX_SCREENSHOTS = DefaultMaxScreenshots
    /\ pc = "Idle"
    /\ max_screenshots = <<>>
    /\ result = "none"
    /\ returned = <<>>
    /\ quits = 0
    /\ NoLocals
    /\ NoCapture
    /\ wpc = "Compare"
    /\ run_status = "processing"
    /\ run_totals = <<>>
    /\ comparisons = <<>>
    /\ change_details = <<>>
    /\ tolerance \in Tolerances
    /\ app_url = TRUE
    /\ doc_images = <<Doc(FALSE)>>
    /\ doc_index = 1
    /\ screenshot_bytes \in Buffers
    /\ doc_bytes \in Buffers
    /\ similarity = <<>>
    /\ regions = <<>>
    /\ status = "error"
    /\ comp_row = FALSE
    /\ total_images = 1
    /\ changes_detected = 0
    /\ wexc = FALSE

SsimSpec == SsimInit /\ [][Compare]_vars

\* ------------------------------------------- get_element_signature alone
\* One call of get_element_signature on any element of a small universe:
\* `element` holds the element handle, `returned` the signature.
LongText == LowerChars \o SubSeq(UpperChars, 1, 5)

SigTexts == {<<>>, <<" ", " ">>, <<" ","D","o","c","s"," ">>, LongText,
             <<" ">> \o SubSeq(LongText, 1, SigTextLen) \o <<" ">>}

SigElems ==
    {El(TagButton, txt, aria, name, id, "", x, 50, 100, 40, TRUE, TRUE, {2}, raises) :
        txt \in SigTexts,
        aria \in {<<>>, <<"I","n","f","o">>},
        name \in {<<>>, <<"s","a","v","e">>},
        id \in {<<>>, <<"b","t","n">>},
        x \in {-30, 10},
        raises \in {{}, {"attribute"}, {"location"}}}

SigInit ==
    /\ MAX_SCREENSHOTS = DefaultMaxScreenshots
    /\ pc = "Signing"
    /\ max_screenshots = <<>>
    /\ result = "none"
    /\ returned = <<>>
    /\ quits = 0
    /\ driver = "chrome" /\ dom = {} /\ candidates = <<>>
    /\ visited_signatures = {} /\ interaction_log = <<>>
    /\ screenshots = <<>> /\ screenshot_count = 0
    /\ i = 0 /\ n = 0
    /\ element \in SigElems
    /\ text = <<>>
    /\ exc = FALSE
    /\ WorkerIdle
    /\ NoCapture

\* lines 165-180: the signature of the element is returned
GetSignature ==
    /\ pc = "Signing"
    /\ returned' = get_element_signature(element)
    /\ result' = "signature"
    /\ pc' = "Idle"
    /\ UNCHANGED <<MAX_SCREENSHOTS, max_screenshots, quits>>
    /\ UNCHANGED locals
    /\ UNCHANGED worker
    /\ UNCHANGED capture

SigSpec == SigInit /\ [][GetSignature]_vars

\* ------------------------------------------- capture_web_screenshot alone
\* One call of capture_web_screenshot with any method on a driver that
\* behaves in any way.
CaptureMethods == {"full", "smart", "viewport"}

CaptureInit ==
    /\ MAX_SCREENSHOTS = DefaultMaxScreenshots
    /\ pc = "Idle"
    /\ max_screenshots = <<>>
    /\ result = "none"
    /\ returned = <<>>
    /\ quits = 0
    /\ NoLocals
    /\ WorkerIdle
    /\ cap_method \in CaptureMethods
    /\ cap_outcome \in CaptureOutcomes
    /\ cap_result = <<>>

\* lines 276-305: the call returns
CaptureWeb ==
    /\ cap_method \in CaptureMethods
    /\ cap_result = <<>>
    /\ cap_result' = <<capture_web_screenshot(cap_method, cap_outcome)>>
    /\ UNCHANGED <<cap_method, cap_outcome>>
    /\ UNCHANGED <<MAX_SCREENSHOTS, pc, max_screenshots, quits, result, returned>>
    /\ UNCHANGED locals
    /\ UNCHANGED worker

CaptureSpec == CaptureInit /\ [][CaptureWeb]_vars

\* ------------------------------------------------------------------ claims
Range(seq) == {seq[k] : k \in 1..Len(seq)}

\* C1: no two entries of the interaction log of a session carry the same
\* signature, whatever the scans, clicks and captures did.
NoRepeatedSignature ==
    \A a, b \in 1..Len(interaction_log) :
        a # b => interaction_log[a].signature # interaction_log[b].signature

\* a second element has been selected while an element carrying the first
\* logged signature is on the page
RevisitOffered ==
    /\ pc = "Acting"
    /\ Len(interaction_log) >= 2
    /\ \E id \in dom : Signature(id) = interaction_log[1].signature

\* C2: the sequence returned is never longer than the max_screenshots
\* argument, for every argument >= 0.
ReturnedWithinArgument ==
    (pc = "Idle" /\ result = "returned" /\ max_screenshots # <<>>)
        => Len(returned) <= max_screenshots[1]

\* scan cycles started in the current call: the index of the loop, plus the
\* cycle in progress or the one that found nothing and left the loop
ScanCycles ==
    IF \/ pc \in {"Scanning", "Acting", "Capturing"}
       \/ (pc = "Finally" /\ n > 0 /\ element = NoElement /\ ~exc)
    THEN i + 1
    ELSE i

FloorBucket(v) ==
    CHOOSE q \in -10..10 : RowBucket * q <= v /\ v < RowBucket * (q + 1)

\* (floor(y/100), floor(x/100), -area) of an element
RankKey(id) ==
    <<FloorBucket(Elem[id].y), FloorBucket(Elem[id].x),
      0 - (Elem[id].w * Elem[id].h)>>

Survivors(cands, visited) == {id \in Range(cands) : Survives(id, visited)}

\* the lists built when no selector raises
FullLists(page) == {Candidates(order, {}, 1) : order \in Orders(page)}

\* a scan that selects takes a survivor of minimal key
SelectsMinimalKey ==
    (pc = "Scanning" /\ element' # NoElement) =>
        /\ element' \in Survivors(candidates, visited_signatures)
        /\ \A c \in Survivors(candidates, visited_signatures) :
               ~TupleLess(RankKey(c), RankKey(element'))

PageSignatures(page) == {Signature(id) : id \in page}

\* after a scan that listed every matching element of the page, no later
\* scan of the same page, whatever was visited in between, selects an
\* element of a smaller key
RisingOrderAfterFullScan ==
    pc = "Loop" =>
        \A lists \in {CandidateLists(dom)} :
        \A first \in {NextItem(c1, visited_signatures) : c1 \in FullLists(dom)} :
            first # <<>> =>
                \A later \in SUBSET (PageSignatures(dom) \ visited_signatures),
                   c2 \in lists :
                    \A second \in {NextItem(c2, visited_signatures
                                        \cup {first[1].signature} \cup later)} :
                        second # <<>> =>
                            ~TupleLess(RankKey(second[1].element),
                                       RankKey(first[1].element))

RECURSIVE SelectionOrder(_, _)
SelectionOrder(cands, visited) ==
    IF NextItem(cands, visited) = <<>> THEN <<>>
    ELSE <<NextItem(cands, visited)[1].element>>
         \o SelectionOrder(cands,
                visited \cup {NextItem(cands, visited)[1].signature})

\* C5: the order in which repeated scans select the elements of a page
\* does not depend on the order in which the page lists them.
SameOrderForAnyEnumeration ==
    pc = "Loop" =>
        \A c1, c2 \in FullLists(dom) :
            SelectionOrder(c1, visited_signatures)
                = SelectionOrder(c2, visited_signatures)

\* C6: an element returned by a scan was in that scan displayed, enabled,
\* judged safe, with a signature that is not null and not visited, and no
\* read of it raised.
OnlyEligibleSelected ==
    [][(pc = "Scanning" /\ element' # NoElement) =>
        /\ element' \in Range(candidates)
        /\ Elem[element'].displayed
        /\ Elem[element'].enabled
        /\ Elem[element'].raises = {}
        /\ is_safe_element(Elem[element'])
        /\ get_element_signature(Elem[element']) # NoSig
        /\ get_element_signature(Elem[element']) \notin visited_signatures]_vars

\* an element was selected on a page that also shows an unsafe one
SelectedBesideUnsafe ==
    /\ pc = "Acting"
    /\ \E id \in dom : Shown(id) /\ ~Safe(id)

\* the chosen text of the signature holds a denylist word
DenylistedChosenText(e) ==
    \E bad \in avoid_keywords : Contains(bad, lower(SignatureText(e).val))

\* C7: is_safe_element says unsafe for an element whose chosen text (text,
\* aria-label, name, id) holds a denylist word or whose role is a dialog
\* role, and safe for every other element whose reads succeed.
VerdictFollowsChosenText ==
    \A id \in dom :
        ("text" \notin Elem[id].raises /\ "attribute" \notin Elem[id].raises)
            => (is_safe_element(Elem[id])
                    <=> ~(DenylistedChosenText(Elem[id])
                            \/ Elem[id].role \in DialogRoles))

\* C8: while the action on a selected element is pending its signature is
\* already in visited and is the last entry of the log, and no scan selects
\* a signature that is in visited.
VisitedAtSelection ==
    /\ [](pc \in {"Acting", "Capturing"} =>
            /\ element # NoElement
            /\ Signature(element) \in visited_signatures
            /\ interaction_log # <<>>
            /\ interaction_log[Len(interaction_log)].signature
                   = Signature(element))
    /\ [][(pc = "Scanning" /\ element' # NoElement)
            => Signature(element') \notin visited_signatures]_vars

\* the first action or its capture failed, the element is still on the
\* page, and the next scan has selected another element
SelectedAfterFailure ==
    /\ pc = "Acting"
    /\ i = 1
    /\ \A k \in 1..Len(screenshots) : screenshots[k][2] # "action"
    /\ Len(interaction_log) = 2
    /\ \E id \in dom : Signature(id) = interaction_log[1].signature

\* a step in which the action or the capture of the selected element fails
ActionOrCaptureFails ==
    \/ pc = "Acting" /\ pc' # "Capturing"
    \/ pc = "Capturing" /\ screenshots' = screenshots

OnlyNoBrowserRaises == result # "raised"

\* the positions of the controller inside the scan/act/capture loop
LoopPositions == {"Loop", "Scanning", "Acting", "Capturing"}

\* captures made after a click
ActionCaptures ==
    Cardinality({k \in 1..Len(screenshots) : screenshots[k][2] = "action"})

\* the loop is entered from the baseline capture only
BaselineBeforeLoop ==
    (pc' \in LoopPositions) => (pc \in LoopPositions \cup {"Baseline"})

\* C11 as stated: with the argument N >= 1 the baseline capture is requested
\* before any scan or click, and at most N - 1 captures follow a click.
BaselineThenAtMostNMinusOne ==
    /\ [][BaselineBeforeLoop]_vars
    /\ [](Truthy(max_screenshots) => ActionCaptures <= max_screenshots[1] - 1)

\* C11 amended: with the argument N >= 1 the baseline capture is requested
\* before any scan or click; the captures are never more than N in all, so
\* at most N - 1 follow a click when the baseline capture succeeded, and at
\* most N when it failed.
BaselineThenAtMostNInAll ==
    /\ [][BaselineBeforeLoop]_vars
    /\ [](Truthy(max_screenshots) =>
            /\ Len(screenshots) <= max_screenshots[1]
            /\ \A k \in 1..Len(screenshots) :
                   screenshots[k][2] = "initial" => k = 1
            /\ (screenshots # <<>> /\ screenshots[1][2] = "initial")
                   => ActionCaptures <= max_screenshots[1] - 1)

\* the session stops after the baseline and N - 1 captures of clicks with a
\* candidate still selectable
StoppedAtBudgetWithCandidates ==
    /\ pc = "Finally"
    /\ Truthy(max_screenshots)
    /\ screenshots # <<>>
    /\ screenshots[1][2] = "initial"
    /\ ActionCaptures = max_screenshots[1] - 1
    /\ ActionCaptures >= 1
    /\ \E c \in CandidateLists(dom) : NextItem(c, visited_signatures) # <<>>

\* get_attribute raises for every attribute of the element
AttributeReadsRaise(id) == "attribute" \in Elem[id].raises

\* a scan passes over the elements whose attribute reads raise: none is
\* selected, nothing is raised, and a survivor of minimal key is selected
\* whenever the candidate list holds a survivor
ScanDropsAndGoesOn ==
    pc = "Scanning" =>
        /\ exc' = exc
        /\ pc' \in {"Acting", "Finally"}
        /\ element' # NoElement => ~AttributeReadsRaise(element')
        /\ Survivors(candidates, visited_signatures) # {} =>
            /\ element' \in Survivors(candidates, visited_signatures)
            /\ \A c \in Survivors(candidates, visited_signatures) :
                   ~TupleLess(RankKey(c), RankKey(element'))

\* C12 as stated: an element whose attribute reads all raise has the null
\* signature, with or without visible text; it is not selected, nothing is
\* raised by the scan, and the scan selects the best of the other candidates.
NullSignatureWhenAttributesRaise ==
    /\ [](\A id \in dom :
            AttributeReadsRaise(id) => get_element_signature(Elem[id]) = NoSig)
    /\ [][ScanDropsAndGoesOn]_vars

\* C12 amended: an element whose attribute reads all raise has the null
\* signature when it has no visible text, and is judged unsafe in any case;
\* it is not selected, nothing is raised by the scan, and the scan selects
\* the best of the other candidates.
DroppedWhenAttributesRaise ==
    /\ [](\A id \in dom :
            AttributeReadsRaise(id) =>
                /\ ~is_safe_element(Elem[id])
                /\ ("text" \notin Elem[id].raises /\ strip(Elem[id].text) = <<>>)
                       => get_element_signature(Elem[id]) = NoSig)
    /\ [][ScanDropsAndGoesOn]_vars

\* an element was selected on a page where an element with visible text,
\* raising attribute reads and a smaller key was passed over
SelectedPastRaisingElement ==
    /\ pc = "Acting"
    /\ \E id \in dom :
        /\ AttributeReadsRaise(id)
        /\ get_element_signature(Elem[id]) # NoSig
        /\ TupleLess(RankKey(id), RankKey(element))

\* C13: every region compute_ssim_and_diff returns has area = width * height,
\* at least 50, and non-negative x, y, width and height; a bounding box of
\* area below 50 is not in the list.
RegionsAtLeastMinArea ==
    \A k \in 1..Len(regions) :
        /\ regions[k].area = regions[k].width * regions[k].height
        /\ regions[k].area >= 50
        /\ regions[k].x >= 0 /\ regions[k].y >= 0
        /\ regions[k].width >= 0 /\ regions[k].height >= 0

\* two images of 10 x 5 pixels that differ: the box of area 50 is reported
RegionOfAreaFifty ==
    /\ wpc = "Insert"
    /\ doc_bytes.w = 10 /\ doc_bytes.h = 5
    /\ Len(regions) = 1
    /\ regions[1].area = 50

\* C14: comparing a decodable image with itself gives the score 1 (100
\* percent): the numerator and the denominator of the similarity map are
\* equal, and not 0, at every pixel.
IdenticalScoresOne ==
    (wpc = "Insert" /\ doc_bytes = screenshot_bytes /\ ~DecodeFails(doc_bytes))
        => /\ similarity # <<>>
           /\ similarity[1].den # 0
           /\ similarity[1].num = similarity[1].den
           /\ status = "matched"

\* the row of a black and a white pixel compared with itself
IdenticalRowsCompared ==
    /\ wpc = "Insert"
    /\ doc_bytes = screenshot_bytes
    /\ doc_bytes.px = <<0, 2>>
    /\ similarity # <<>>

\* C15: compute_ssim_and_diff(A, B) and compute_ssim_and_diff(B, A) return
\* the same score for every pair of decodable images.
SameScoreWhenSwapped ==
    (wpc = "Insert" /\ ~DecodeFails(doc_bytes) /\ ~DecodeFails(screenshot_bytes))
        => /\ similarity # <<>>
           /\ similarity[1] =
                  compute_ssim_and_diff(screenshot_bytes, doc_bytes).score

\* images of different sizes and different pixels have been compared
UnequalPairCompared ==
    /\ wpc = "Insert"
    /\ doc_bytes.px = <<0, 2>>
    /\ screenshot_bytes.w = 1
    /\ screenshot_bytes.px = <<2>>
    /\ similarity # <<>>

\* C16: the score compute_ssim_and_diff returns lies in [0, 1]
\* (similarity percent in [0, 100]) for every pair of images.
ScoreWithinUnitInterval ==
    similarity # <<>> =>
        /\ 0 <= similarity[1].num
        /\ similarity[1].num <= similarity[1].den

\* both buffers are there and one of them is not an image
Undecodable ==
    /\ Present(doc_bytes) /\ Present(screenshot_bytes)
    /\ DecodeFails(doc_bytes) \/ DecodeFails(screenshot_bytes)

\* the comparison of an undecodable buffer leaves no result and no exception
DecodeErrorCaught ==
    (wpc = "Compare" /\ Undecodable)
        => /\ wpc' = "Insert" /\ wexc' = FALSE
           /\ similarity' = <<>> /\ regions' = <<>> /\ status' = "error"
           /\ changes_detected' = changes_detected
           /\ comparisons' = comparisons /\ change_details' = change_details

\* its row, once inserted, has status 'error' and no similarity, it gets no
\* change_details, and the for loop goes on to the next doc image
ErrorRowThenNextDoc ==
    (wpc = "Details" /\ Undecodable)
        => /\ comparisons[Len(comparisons)].status = "error"
           /\ comparisons[Len(comparisons)].similarity_score = <<>>
           /\ wpc' = "NextDoc" /\ wexc' = FALSE
           /\ change_details' = change_details
           /\ doc_index' = doc_index /\ doc_images' = doc_images

\* C17: when a buffer cannot be decoded compute_ssim_and_diff raises and
\* returns nothing; in process_run_id the error stays within that comparison,
\* recorded with status 'error' and null similarity, and the remaining doc
\* images of the run are still processed.
DecodeErrorConfined ==
    /\ [][DecodeErrorCaught]_vars
    /\ [][ErrorRowThenNextDoc]_vars
    /\ []((wpc = "NextDoc" /\ doc_index < Len(doc_images)) => ~wexc)

\* the first of two doc images could not be decoded: its row is in the table
\* with status 'error' and the for loop is about to take the second
ErrorRowAndDocsLeft ==
    /\ wpc = "NextDoc"
    /\ Undecodable
    /\ doc_index = 1 /\ Len(doc_images) = 2
    /\ Len(comparisons) = 1
    /\ comparisons[1].status = "error"
    /\ comparisons[1].similarity_score = <<>>
    /\ ~wexc

IsPrefix(s, t) == Len(s) <= Len(t) /\ SubSeq(t, 1, Len(s)) = s

\* a step of a session: any step but the one that ends the call and drops
\* the explorer
SessionStep == pc # "Finally" /\ pc # "Idle"

GrowsOnly ==
    SessionStep =>
        /\ visited_signatures \subseteq visited_signatures'
        /\ IsPrefix(interaction_log, interaction_log')

\* C18: within one exploration session visited never shrinks and the log is
\* append-only: every step of the explorer and of the controller leaves
\* visited a superset and the log an extension of what they were.
VisitedAndLogGrowOnly == [][GrowsOnly]_vars

\* a session in which two selections have been recorded
TwoSelectionsRecorded ==
    /\ pc = "Acting"
    /\ Cardinality(visited_signatures) = 2
    /\ Len(interaction_log) = 2

\* the call is about to end without an exception
StopsNormally == pc = "Finally" /\ ~exc

\* the last scan of the loop returned no element (the break at line 458)
LastScanEmpty == element = NoElement /\ InRange(i, n)

\* iterations of the loop that ended without a capture
Misses == i - ActionCaptures

LoopEndsOnlySpent ==
    /\ (pc \in {"Acting", "Capturing"}) => pc' # "Finally"
    /\ (pc = "Loop" /\ pc' = "Finally") => i = n
    /\ (pc = "Scanning" /\ pc' = "Finally") => element' = NoElement

CaptureFailed ==
    pc = "Capturing" /\ pc' = "Loop" /\ Len(screenshots') = Len(screenshots)

\* a failed capture appends nothing and counts nothing, uses the iteration
\* and leaves visited, with the element in it, and the log as they are
MissKeepsResults ==
    CaptureFailed =>
        /\ screenshots' = screenshots
        /\ screenshot_count' = screenshot_count
        /\ i' = i + 1 /\ n' = n
        /\ element # NoElement
        /\ Signature(element) \in visited_signatures'
        /\ visited_signatures' = visited_signatures
        /\ interaction_log' = interaction_log
        /\ exc' = exc

\* C20: when the capture requested after an action fails, nothing is
\* appended to the result sequence and the capture count is unchanged, while
\* the iteration is consumed and the acted-on element stays in visited.
FailedCaptureIsAMiss == [][MissKeepsResults]_vars

\* the click changed the page and its capture failed: an iteration is used,
\* no capture was added, the element is in visited
LoopAfterFailedCapture ==
    /\ pc = "Loop"
    /\ i = 1
    /\ element # NoElement
    /\ element \notin dom
    /\ Len(screenshots) = 1 /\ screenshot_count = 1
    /\ ActionCaptures = 0
    /\ Signature(element) \in visited_signatures

\* a scan with no surviving candidate returns no element, changes neither
\* visited nor the log, and ends the loop
EmptyScanBreaks ==
    (pc = "Scanning" /\ Survivors(candidates, visited_signatures) = {})
        => /\ element' = NoElement
           /\ visited_signatures' = visited_signatures
           /\ interaction_log' = interaction_log
           /\ screenshots' = screenshots
           /\ pc' = "Finally"

\* once the loop has ended the call only ends: no scan, click or capture
NothingAfterStop == (pc = "Finally") => (pc' \in {"Finally", "Idle"})

\* C21: when a scan finds no candidate that survives filtering the controller
\* stops: the scan leaves visited and the log unchanged and no further scan,
\* click or capture happens in the session.
EmptyScanStopsSession == [][EmptyScanBreaks]_vars /\ [][NothingAfterStop]_vars

\* after at least one selection a scan of a page that still has elements
\* found no survivor, with iterations left
StoppedByEmptyScan ==
    /\ StopsNormally
    /\ LastScanEmpty
    /\ visited_signatures # {}
    /\ dom # {}

\* a read of the text or of an attribute of the element raises
SafetyReadRaises(id) ==
    "text" \in Elem[id].raises \/ "attribute" \in Elem[id].raises

\* the verdict on every such element of the page is unsafe
FailClosed ==
    \A id \in dom : SafetyReadRaises(id) => ~is_safe_element(Elem[id])

\* no exception leaves the scan, and the scan does not return such an element
ScanKeepsNoException ==
    (pc = "Scanning")
        => /\ exc' = FALSE
           /\ pc' \in {"Acting", "Finally"}
           /\ element' # NoElement => ~SafetyReadRaises(element')

\* C22: whenever reading the text or an attribute of an element raises
\* during is_safe_element the verdict is unsafe and no exception propagates
\* to the scan.
UnsafeWhenReadRaises == []FailClosed /\ [][ScanKeepsNoException]_vars

\* a scan of a page with an element whose text read raises and one whose
\* aria-label read raises has selected a third element
SelectedBesideRaisingReads ==
    /\ pc = "Acting"
    /\ {7, 14} \subseteq dom
    /\ element \notin {7, 14}
    /\ ~exc

RECURSIVE FirstNonEmpty(_, _)
FirstNonEmpty(strings, fallback) ==
    IF strings = <<>> THEN fallback
    ELSE IF Head(strings) # <<>> THEN Head(strings)
    ELSE FirstNonEmpty(Tail(strings), fallback)

\* the first 30 characters of a string
FirstThirty(str) == [k \in 1..Min(30, Len(str)) |-> str[k]]

\* tag, '_', the first 30 characters of the chosen text, '_', x, '_', y
SignatureAsSpecified(e) ==
    e.tag \o <<"_">>
        \o FirstThirty(FirstNonEmpty(<<strip(e.text), e.aria, e.name, e.id>>,
                                     <<"e","l","e","m","e","n","t">>))
        \o <<"_">> \o IntStr(e.x) \o <<"_">> \o IntStr(e.y)

\* C23: for an element whose reads succeed get_element_signature returns
\* tag, '_', the first 30 characters of the chosen text, '_', x, '_', y, the
\* chosen text being the first non-empty of the trimmed visible text,
\* aria-label, name, id, and otherwise 'element'.
SignatureOfReadableElement ==
    (result = "signature" /\ element.raises = {})
        => returned = SignatureAsSpecified(element)

\* the signature of an element with a visible text of 31 characters at a
\* negative x has been returned
LongTextSigned ==
    /\ result = "signature"
    /\ element.raises = {}
    /\ element.text = LongText
    /\ element.x < 0
    /\ Len(returned) = Len(TagButton) + 1 + 30 + 1 + 3 + 1 + 2

\* the severity of every change_details row follows its area
SeverityFollowsArea ==
    \A k \in 1..Len(change_details) :
        /\ change_details[k].severity \in {"major", "minor"}
        /\ change_details[k].severity = "major" <=> change_details[k].area > 1000

\* the rows written for a comparison are rows of its regions, in order
DetailsAreRegions ==
    (wpc = "Details") =>
        /\ IsPrefix(change_details, change_details')
        /\ Len(change_details') - Len(change_details) <= Len(regions)
        /\ \A k \in 1..(Len(change_details') - Len(change_details)) :
               change_details'[Len(change_details) + k].area = regions[k].area
        /\ (status # "changed") => change_details' = change_details

\* C24: every region reported for a changed comparison gets severity 'major'
\* exactly when its area is greater than 1000 and 'minor' otherwise; a region
\* of area exactly 1000 is 'minor'.
RegionSeverityByArea == []SeverityFollowsArea /\ [][DetailsAreRegions]_vars

\* a run that reported a region of area 1000 as minor and one of area 1040
\* as major
MinorAtThousandMajorAbove ==
    /\ \E k \in 1..Len(change_details) :
           change_details[k].area = 1000 /\ change_details[k].severity = "minor"
    /\ \E k \in 1..Len(change_details) :
           change_details[k].area = 1040 /\ change_details[k].severity = "major"

\* the explorer of a call that has not scanned yet is empty
StartsEmpty ==
    (pc \in {"CreateDriver", "LoadPage", "Baseline"} \/ (pc = "Loop" /\ i = 0))
        => visited_signatures = {} /\ interaction_log = <<>>

\* the first scan of a call selects whenever a candidate survives the filter
\* with nothing visited: no earlier signature blocks it
FirstScanUnblocked ==
    (pc = "Scanning" /\ i = 0 /\ Survivors(candidates, {}) # {})
        => /\ element' \in Survivors(candidates, {})
           /\ visited_signatures' = {Signature(element')}
           /\ Len(interaction_log') = 1

\* C25: each exploration run owns a fresh visited set and log: a later
\* run_web_exploration call starts with an empty visited set, and the
\* signatures visited in an earlier run neither block nor appear in it.
FreshExplorerPerRun == []StartsEmpty /\ [][FirstScanUnblocked]_vars

\* a call without argument that runs under a bound left by an earlier call
\* has made its first selection
LaterRunSelected ==
    /\ max_screenshots = <<>>
    /\ MAX_SCREENSHOTS # DefaultMaxScreenshots
    /\ pc = "Acting"
    /\ i = 0
    /\ visited_signatures = {Signature(element)}
    /\ Len(interaction_log) = 1

\* C26: capture_web_screenshot reports failure only after a viewport
\* screenshot has been attempted and has failed, for every capture method
\* and every point at which the full-page capture can fail.
FailureOnlyAfterViewport ==
    (cap_result # <<>> /\ ~cap_result[1].ok)
        => /\ cap_result[1].saves >= 1
           /\ ~cap_outcome.save[cap_result[1].saves]

\* the call ends with one driver.quit() if it had a driver, with none
\* otherwise
QuitAtEnd ==
    (pc # "Idle" /\ pc' = "Idle")
        => quits' = (IF driver # "none" THEN 1 ELSE 0)

\* C27: once run_web_exploration has created a driver, driver.quit() is
\* called exactly once before the call ends, on every exit path: normal
\* return, early stop for lack of candidates, exception of the page load or
\* of a later step; it is not called while the call is still at work.
QuitExactlyOnce ==
    /\ [][QuitAtEnd]_vars
    /\ [](pc # "Idle" => quits = 0)
    /\ [](result \in {"raised", "returned"} => quits = 1)

\* a call that ended with an exception has ended after one quit
RaisedAfterOneQuit ==
    /\ pc = "Idle"
    /\ result = "raised"
    /\ quits = 1

LogSignatures == {interaction_log[k].signature : k \in 1..Len(interaction_log)}

\* the log and visited hold the same signatures, once each
LogMatchesVisited ==
    /\ LogSignatures = visited_signatures
    /\ Len(interaction_log) = Cardinality(visited_signatures)

\* a scan that selects adds one signature and one entry, a scan that
\* selects nothing adds neither
ScanAddsOneOrNone ==
    (pc = "Scanning") =>
        IF element' # NoElement
        THEN /\ Signature(element') \notin visited_signatures
             /\ visited_signatures' = visited_signatures \cup {Signature(element')}
             /\ Len(interaction_log') = Len(interaction_log) + 1
             /\ interaction_log'[Len(interaction_log')].signature = Signature(element')
        ELSE /\ visited_signatures' = visited_signatures
             /\ interaction_log' = interaction_log

\* C28: after any sequence of scans in a session the signatures of the
\* interaction log are the signatures of visited and the log is as long as
\* visited is large: a selection adds exactly one signature and one entry, a
\* scan that selects nothing adds neither.
LogAndVisitedAgree == []LogMatchesVisited /\ [][ScanAddsOneOrNone]_vars

\* two selections and then an empty scan
TwoLoggedThenEmptyScan ==
    /\ StopsNormally
    /\ LastScanEmpty
    /\ Len(interaction_log) = 2
    /\ Cardinality(visited_signatures) = 2

\* C29: every run that process_run_id marks 'processing' is marked
\* 'completed' before process_run_id returns, whatever the collaborators
\* raise while its doc images are processed; no run is left in 'processing'.
CompletedOnReturn ==
    [][(wpc \in {"NextDoc", "Close", "Update"} /\ wpc' = "Idle")
           => run_status' = "completed"]_vars

\* C30: in every comparison row inserted by process_run_id change_severity
\* is non-null only if status is 'changed': rows with status 'matched' or
\* 'error' carry a null change_severity, for every tolerance and similarity.
SeverityOnlyWhenChanged ==
    \A k \in 1..Len(comparisons) :
        comparisons[k].change_severity # "null"
            => comparisons[k].status = "changed"

\* a step that starts a run_web_exploration call
CallStep == pc = "Idle" /\ pc' = "CreateDriver"

\* the call overwrites the bound with a non-zero argument and keeps the
\* bound it finds otherwise; no other step of a run writes the bound
BoundWrittenOnlyByArgument ==
    /\ CallStep =>
        MAX_SCREENSHOTS' = IF max_screenshots' # <<>> /\ max_screenshots'[1] # 0
                           THEN max_screenshots'[1]
                           ELSE MAX_SCREENSHOTS
    /\ ~CallStep => MAX_SCREENSHOTS' = MAX_SCREENSHOTS

\* the budget test and the loop range read the process-wide bound
BoundReadByLoop ==
    (pc = "Baseline") =>
        /\ pc' = "Loop" <=> screenshot_count' < MAX_SCREENSHOTS
        /\ pc' = "Loop" => n' = MAX_SCREENSHOTS - screenshot_count'

\* before the first call of the process the bound is 5
BoundStartsAtDefault ==
    (pc = "Idle" /\ result = "none") => MAX_SCREENSHOTS = 5

OverrideClearedOnReturn ==
    (cap_result # <<>> /\ cap_method \in {"full", "smart"}
        /\ cap_outcome.script /\ ~cap_outcome.short /\ cap_outcome.setOverride)
        => ~cap_result[1].override

====
